---- MODULE Spec2Model ----
(***************************************************************************)
(* PhotoSift session engine: PhotoManager (src/src/photo_manager.py) and   *)
(* the deferred-action part of MainWindow / CountdownWidget                *)
(* (src/src/main_window.py).                                               *)
(*                                                                         *)
(* Representation.  An optional value is a sequence: None is <<>>.  A path *)
(* is the tuple <<folder, stem, ext>>; a base name (file stem) is a        *)
(* sequence of code points, so that str.lower() and the ordering of        *)
(* strings can be computed.  PhotoPair objects live in a heap, and the     *)
(* list photo_pairs and PendingAction.photo hold references into it.       *)
(***************************************************************************)
EXTENDS Integers, Sequences, FiniteSets, TLC

None == <<>>

Range(seq) == {seq[i] : i \in 1..Len(seq)}

(***************************************************************************)
(* Bounds of the model.                                                    *)
(***************************************************************************)
\* loads of a folder plus timestamps handed out by datetime.now()
MaxEffects == 3

(***************************************************************************)
(* The folders a load can name.  The directories are the domain of disk; a *)
(* path in NoFolder does not exist; iterdir() raises on a directory in     *)
(* Unreadable.                                                             *)
(***************************************************************************)
Unreadable == {"locked"}
NoFolder == {"nodir"}

\* open(..., 'w') raises in a directory of ReadOnly
ReadOnly == {"F2"}

(***************************************************************************)
(* Strings: code points, str.lower(), and str ordering.                    *)
(***************************************************************************)
chA == 65
chB == 66
cha == 97
chb == 98
chc == 99

LowerChar(ch) == IF ch >= 65 /\ ch <= 90 THEN ch + 32 ELSE ch

RECURSIVE lower(_)
lower(s) == IF s = <<>> THEN <<>> ELSE <<LowerChar(Head(s))>> \o lower(Tail(s))

RECURSIVE StrLess(_, _)
StrLess(s, t) ==
    IF t = <<>> THEN FALSE
    ELSE IF s = <<>> THEN TRUE
    ELSE IF Head(s) # Head(t) THEN Head(s) < Head(t)
    ELSE StrLess(Tail(s), Tail(t))

NameA == <<cha>>
NameB == <<chb>>
NameC == <<chc>>

\* unlink() raises PermissionError on these files
Protected == { <<"F1", NameB, ".cr2">> }

(***************************************************************************)
(* PhotoAction and PhotoPair.                                              *)
(***************************************************************************)
PhotoAction == {"none", "keep_all", "delete_raw", "delete_all", "skipped"}

JPEG_EXTENSIONS == {".jpg", ".jpeg", ".JPG", ".JPEG"}
RAW_EXTENSIONS == {".cr2", ".CR2", ".cr3", ".CR3"}

PhotoPair(base) ==
    [base_name |-> base, jpeg_path |-> None, raw_path |-> None,
     action |-> "none", action_timestamp |-> None]

\* Path.exists() for a file path <<folder, stem, ext>>
FileExists(dk, path) ==
    /\ path[1] \in DOMAIN dk
    /\ \E i \in 1..Len(dk[path[1]]) : dk[path[1]][i] = <<path[2], path[3]>>

has_jpeg(dk, p) == p.jpeg_path # None /\ FileExists(dk, p.jpeg_path)

has_raw(dk, p) == p.raw_path # None /\ FileExists(dk, p.raw_path)

has_action(p) == p.action # "none"

\* Path.unlink(): the file leaves the directory listing
Unlink(dk, path) ==
    [dk EXCEPT ![path[1]] =
        SelectSeq(dk[path[1]], LAMBDA f : f # <<path[2], path[3]>>)]

(***************************************************************************)
(* The world a handler runs in: the file system (disk, sidecar), the       *)
(* PhotoManager fields, the heap of PhotoPair objects, the clock read by   *)
(* datetime.now(), the signals emitted so far by the running handler, and  *)
(* ret, the value returned by the last PhotoManager call.                  *)
(***************************************************************************)
Emit(w, sig) == [w EXCEPT !.signals = Append(@, sig)]

Return(w, v) == [w EXCEPT !.ret = v]

current_photo_ref(w) ==
    IF w.photo_pairs = <<>> \/ w.current_index >= Len(w.photo_pairs)
    THEN None
    ELSE <<w.photo_pairs[w.current_index + 1]>>

get_current_photo(w) ==
    IF current_photo_ref(w) = None THEN None
    ELSE <<w.heap[current_photo_ref(w)[1]]>>

get_photo_count(w) ==
    IF w.photo_pairs = <<>> THEN <<0, 0>>
    ELSE <<w.current_index + 1, Len(w.photo_pairs)>>

\* faulty variant: the cursor may step past the last entry
move_to_next_past_end(w) ==
    IF w.current_index < Len(w.photo_pairs)
    THEN Return([w EXCEPT !.current_index = @ + 1], TRUE)
    ELSE Return(w, FALSE)

move_to_next(w) ==
    IF w.current_index < Len(w.photo_pairs) - 1
    THEN Return([w EXCEPT !.current_index = @ + 1], TRUE)
    ELSE Return(w, FALSE)

move_to_previous(w) ==
    IF w.current_index > 0
    THEN Return([w EXCEPT !.current_index = @ - 1], TRUE)
    ELSE Return(w, FALSE)

set_action(w, o, action) ==
    [w EXCEPT !.heap[o].action = action,
              !.heap[o].action_timestamp = <<w.clock>>,
              !.clock = @ + 1]

(***************************************************************************)
(* The sidecar file.  isoformat writes a timestamp as text and             *)
(* fromisoformat reads it back; text that is not a timestamp raises        *)
(* ValueError.                                                             *)
(***************************************************************************)
isoformat(t) == <<"iso", t>>

IsIsoText(x) == Len(x) = 2 /\ x[1] = "iso"

\* a JSON number where the timestamp text is expected
IsNumber(x) == Len(x) = 1 /\ x[1] = "number"

fromisoformat(x) == x[2]

EmptyMap == [n \in {} |-> None]

EmptyDict == [kind |-> "dict", map |-> EmptyMap]

\* faulty variant: entries without an action are written too
SessionInfo_with_unreviewed(w) ==
    LET all == 1..Len(w.photo_pairs)
        names == {w.heap[w.photo_pairs[i]].base_name : i \in all}
        last(n) == CHOOSE i \in all :
                      /\ w.heap[w.photo_pairs[i]].base_name = n
                      /\ \A j \in all : w.heap[w.photo_pairs[j]].base_name = n => j <= i
        rec(p) == [shape |-> "object", has_key |-> TRUE, action |-> p.action,
                   timestamp |-> IF p.action_timestamp # None
                                 THEN isoformat(p.action_timestamp[1]) ELSE None]
    IN  [kind |-> "object",
         actions |-> [kind |-> "dict",
                      map |-> [n \in names |-> rec(w.heap[w.photo_pairs[last(n)]])]]]

\* faulty variant: the timestamps are not written
SessionInfo_without_timestamps(w) ==
    LET acted == {i \in 1..Len(w.photo_pairs) : has_action(w.heap[w.photo_pairs[i]])}
        names == {w.heap[w.photo_pairs[i]].base_name : i \in acted}
        last(n) == CHOOSE i \in acted :
                      /\ w.heap[w.photo_pairs[i]].base_name = n
                      /\ \A j \in acted : w.heap[w.photo_pairs[j]].base_name = n => j <= i
        rec(p) == [shape |-> "object", has_key |-> TRUE, action |-> p.action,
                   timestamp |-> None]
    IN  [kind |-> "object",
         actions |-> [kind |-> "dict",
                      map |-> [n \in names |-> rec(w.heap[w.photo_pairs[last(n)]])]]]

SessionInfo(w) ==
    LET acted == {i \in 1..Len(w.photo_pairs) : has_action(w.heap[w.photo_pairs[i]])}
        names == {w.heap[w.photo_pairs[i]].base_name : i \in acted}
        \* a later photo of the same name overwrites the earlier key
        last(n) == CHOOSE i \in acted :
                      /\ w.heap[w.photo_pairs[i]].base_name = n
                      /\ \A j \in acted : w.heap[w.photo_pairs[j]].base_name = n => j <= i
        rec(p) == [shape |-> "object", has_key |-> TRUE, action |-> p.action,
                   timestamp |-> IF p.action_timestamp # None
                                 THEN isoformat(p.action_timestamp[1]) ELSE None]
    IN  [kind |-> "object",
         actions |-> [kind |-> "dict",
                      map |-> [n \in names |-> rec(w.heap[w.photo_pairs[last(n)]])]]]

_save_session_data(w) ==
    IF w.current_folder = None THEN w
    ELSE IF w.current_folder[1] \notin DOMAIN w.disk \/ w.current_folder[1] \in ReadOnly
         THEN w   \* open() raised: warning printed, nothing written
         ELSE [w EXCEPT !.sidecar[w.current_folder[1]] = SessionInfo(w)]

_load_session_data(w) ==
    LET sc == w.sidecar[w.current_folder[1]]
    IN  IF sc.kind = "object"
        THEN [w EXCEPT !.session_data =
                 IF sc.actions.kind = "absent" THEN EmptyDict ELSE sc.actions]
        ELSE [w EXCEPT !.session_data = EmptyDict]

(***************************************************************************)
(* _scan_photos: group the directory's files by stem in enumeration order, *)
(* keep the groups that have a file, sort them (list.sort is stable) by    *)
(* the lower-cased base name, then apply the loaded session data.          *)
(***************************************************************************)
RECURSIVE GroupFiles(_, _, _)
GroupFiles(folder, files, groups) ==
    IF files = <<>> THEN groups
    ELSE LET base_name == Head(files)[1]
             extension == Head(files)[2]
             file_path == <<folder, base_name, extension>>
             known == \E i \in 1..Len(groups) : groups[i].base_name = base_name
             g1 == IF known THEN groups ELSE Append(groups, PhotoPair(base_name))
             k == CHOOSE i \in 1..Len(g1) : g1[i].base_name = base_name
             g2 == IF extension \in JPEG_EXTENSIONS
                   THEN [g1 EXCEPT ![k].jpeg_path = file_path]
                   ELSE IF extension \in RAW_EXTENSIONS
                        THEN [g1 EXCEPT ![k].raw_path = file_path]
                        ELSE g1
         IN  GroupFiles(folder, Tail(files), g2)

\* insert x behind every element whose key is not greater than its own
RECURSIVE SortedInsert(_, _)
SortedInsert(sorted, x) ==
    IF sorted = <<>> THEN <<x>>
    ELSE IF StrLess(lower(x.base_name), lower(Head(sorted).base_name))
         THEN <<x>> \o sorted
         ELSE <<Head(sorted)>> \o SortedInsert(Tail(sorted), x)

RECURSIVE StableSort(_, _)
StableSort(pairs, sorted) ==
    IF pairs = <<>> THEN sorted
    ELSE StableSort(Tail(pairs), SortedInsert(sorted, Head(pairs)))

\* the loop of _apply_session_data over photos[i..]; a TypeError leaves the
\* loop with raised set and the later photos untouched
RECURSIVE ApplyFrom(_, _, _)
ApplyFrom(photos, sd, i) ==
    IF i > Len(photos) THEN [photos |-> photos, raised |-> FALSE]
    ELSE IF sd.kind = "null"
         THEN [photos |-> photos, raised |-> TRUE]   \* TypeError: `in` on None
    ELSE IF photos[i].base_name \notin DOMAIN sd.map
         THEN ApplyFrom(photos, sd, i + 1)
    ELSE IF sd.kind = "list"
         THEN [photos |-> photos, raised |-> TRUE]   \* TypeError: list[str]
    ELSE LET action_data == sd.map[photos[i].base_name]
         IN  IF action_data.shape # "object"
             THEN [photos |-> photos, raised |-> TRUE]   \* TypeError: subscript
             ELSE IF ~action_data.has_key \/ action_data.action \notin PhotoAction
                  THEN ApplyFrom(photos, sd, i + 1)   \* KeyError, ValueError: skip
             ELSE LET p1 == [photos EXCEPT ![i].action = action_data.action]
                  IN  IF action_data.timestamp = None
                      THEN ApplyFrom(p1, sd, i + 1)
                      ELSE IF IsNumber(action_data.timestamp)
                           \* TypeError: fromisoformat of a non-string
                           THEN [photos |-> p1, raised |-> TRUE]
                      ELSE IF IsIsoText(action_data.timestamp)
                           THEN ApplyFrom([p1 EXCEPT ![i].action_timestamp =
                                       <<fromisoformat(action_data.timestamp)>>],
                                          sd, i + 1)
                      ELSE ApplyFrom(p1, sd, i + 1)   \* ValueError: action stays set

\* faulty variant: the ValueError of an unknown action string is not caught
_apply_session_data_rejects_unknown(photos, sd) ==
    IF /\ sd.kind = "dict"
       /\ \E i \in 1..Len(photos) :
             /\ photos[i].base_name \in DOMAIN sd.map
             /\ sd.map[photos[i].base_name].shape = "object"
             /\ sd.map[photos[i].base_name].has_key
             /\ sd.map[photos[i].base_name].action \notin PhotoAction
    THEN [photos |-> photos, raised |-> TRUE]
    ELSE ApplyFrom(photos, sd, 1)

_apply_session_data(photos, sd) == ApplyFrom(photos, sd, 1)

\* faulty variant: groups without a JPEG or RAW file are kept
ScanResult_keeps_empty(w) ==
    LET folder == w.current_folder[1]
        file_groups == GroupFiles(folder, w.disk[folder], <<>>)
    IN  _apply_session_data(StableSort(file_groups, <<>>), w.session_data)

\* faulty variant: the pairs stay in the order the directory listed them
ScanResult_unsorted(w) ==
    LET folder == w.current_folder[1]
        file_groups == GroupFiles(folder, w.disk[folder], <<>>)
        kept == SelectSeq(file_groups,
                          LAMBDA pair : has_jpeg(w.disk, pair) \/ has_raw(w.disk, pair))
    IN  _apply_session_data(kept, w.session_data)

ScanResult(w) ==
    LET folder == w.current_folder[1]
        file_groups == GroupFiles(folder, w.disk[folder], <<>>)
        kept == SelectSeq(file_groups,
                          LAMBDA pair : has_jpeg(w.disk, pair) \/ has_raw(w.disk, pair))
    IN  _apply_session_data(StableSort(kept, <<>>), w.session_data)

\* the n smallest object ids that no live object occupies
RECURSIVE FreshIds(_, _, _)
FreshIds(n, used, from) ==
    IF n = 0 THEN <<>>
    ELSE IF from \in used THEN FreshIds(n, used, from + 1)
         ELSE <<from>> \o FreshIds(n - 1, used, from + 1)

\* photo_pairs becomes a list of new objects; objects that nothing
\* references any more (neither the list nor `pinned`) are collected
_scan_photos(w, pinned) ==
    LET res == ScanResult(w)
        ids == FreshIds(Len(res.photos), pinned, 1)
        live == pinned \cup {ids[i] : i \in 1..Len(ids)}
        pos(o) == CHOOSE i \in 1..Len(ids) : ids[i] = o
    IN  [w EXCEPT !.photo_pairs = ids,
                  !.heap = [o \in live |-> IF o \in pinned THEN w.heap[o]
                                           ELSE res.photos[pos(o)]],
                  !.raised = res.raised]

\* faulty variant: the resume preference is not consulted
_set_resume_index_always_resumes(w) ==
    LET unprocessed == {i \in 1..Len(w.photo_pairs) :
                            ~has_action(w.heap[w.photo_pairs[i]])}
    IN  IF unprocessed # {}
        THEN [w EXCEPT !.current_index =
                 (CHOOSE i \in unprocessed : \A j \in unprocessed : i <= j) - 1]
        ELSE [w EXCEPT !.current_index = 0]

_set_resume_index(w) ==
    LET unprocessed == {i \in 1..Len(w.photo_pairs) :
                            ~has_action(w.heap[w.photo_pairs[i]])}
    IN  IF w.photo_pairs = <<>> THEN [w EXCEPT !.current_index = 0]
        ELSE IF w.preferences # None /\ ~w.preferences[1]
             THEN [w EXCEPT !.current_index = 0]
        ELSE IF unprocessed # {}
             THEN [w EXCEPT !.current_index =
                      (CHOOSE i \in unprocessed : \A j \in unprocessed : i <= j) - 1]
        ELSE [w EXCEPT !.current_index = 0]

load_folder(w, folder_path, pinned) ==
    LET w1 == [w EXCEPT !.current_folder = <<folder_path>>]
    IN  IF folder_path \notin DOMAIN w.disk
        THEN Return(Emit(w1, "error_occurred"), FALSE)
        ELSE LET w2 == _load_session_data(w1)
             IN  IF folder_path \in Unreadable
                 THEN Return(Emit(w2, "error_occurred"), FALSE)  \* iterdir raised
                 ELSE LET w3 == _scan_photos(w2, pinned)
                      IN  IF w3.raised
                          THEN Return(Emit([w3 EXCEPT !.raised = FALSE],
                                           "error_occurred"), FALSE)
                          ELSE Return(Emit(_set_resume_index(w3), "photos_loaded"), TRUE)

(***************************************************************************)
(* Mutations.  unlink() raises on a file in Protected.                     *)
(***************************************************************************)
keep_both_files(w, o) ==
    Return(Emit(_save_session_data(set_action(w, o, "keep_all")),
                "session_updated"), TRUE)

\* faulty variant: the path of the deleted RAW file is kept
delete_raw_only_keeps_path(w, o) ==
    IF has_raw(w.disk, w.heap[o])
    THEN IF w.heap[o].raw_path \in Protected
         THEN Return(Emit(w, "error_occurred"), FALSE)
         ELSE LET w1 == [w EXCEPT !.disk = Unlink(w.disk, w.heap[o].raw_path)]
                  w2 == set_action(w1, o, "delete_raw")
              IN  Return(Emit(_save_session_data(w2), "session_updated"), TRUE)
    ELSE Return(w, FALSE)

\* faulty variant: an entry without a RAW file is marked delete_raw all the same
delete_raw_only_marks_missing(w, o) ==
    IF has_raw(w.disk, w.heap[o])
    THEN IF w.heap[o].raw_path \in Protected
         THEN Return(Emit(w, "error_occurred"), FALSE)
         ELSE LET w1 == [w EXCEPT !.disk = Unlink(w.disk, w.heap[o].raw_path),
                                  !.heap[o].raw_path = None]
                  w2 == set_action(w1, o, "delete_raw")
              IN  Return(Emit(_save_session_data(w2), "session_updated"), TRUE)
    ELSE Return(_save_session_data(set_action(w, o, "delete_raw")), FALSE)

delete_raw_only(w, o) ==
    IF has_raw(w.disk, w.heap[o])
    THEN IF w.heap[o].raw_path \in Protected
         THEN Return(Emit(w, "error_occurred"), FALSE)
         ELSE LET w1 == [w EXCEPT !.disk = Unlink(w.disk, w.heap[o].raw_path),
                                  !.heap[o].raw_path = None]
                  w2 == set_action(w1, o, "delete_raw")
              IN  Return(Emit(_save_session_data(w2), "session_updated"), TRUE)
    ELSE Return(w, FALSE)

\* dataclass equality: `in`, index() and remove() compare the fields
ListIndex(w, o) ==
    LET eq == {i \in 1..Len(w.photo_pairs) : w.heap[w.photo_pairs[i]] = w.heap[o]}
    IN  IF eq = {} THEN None ELSE <<(CHOOSE i \in eq : \A j \in eq : i <= j) - 1>>

ListRemove(list, index) ==
    SubSeq(list, 1, index) \o SubSeq(list, index + 2, Len(list))

\* faulty variant: the deleted entry stays in the list
RemoveFromList_keeps_entry(w, o) ==
    IF ListIndex(w, o) = None THEN w ELSE Emit(w, "photo_deleted")

\* faulty variant: the first entry of the list is removed, whichever was deleted
RemoveFromList_removes_first(w, o) ==
    IF ListIndex(w, o) = None THEN w
    ELSE LET index == 0
             rest == ListRemove(w.photo_pairs, index)
             w1 == [w EXCEPT !.photo_pairs = rest]
             w2 == IF rest = <<>> THEN [w1 EXCEPT !.current_index = 0]
                   ELSE IF index < w.current_index
                        THEN [w1 EXCEPT !.current_index = @ - 1]
                   ELSE IF index = w.current_index /\ w.current_index >= Len(rest)
                        THEN [w1 EXCEPT !.current_index = Len(rest) - 1]
                   ELSE w1
         IN  Emit(w2, "photo_deleted")

\* faulty variant: after a removal the cursor goes to the last entry
RemoveFromList_moves_to_last(w, o) ==
    IF ListIndex(w, o) = None THEN w
    ELSE LET index == ListIndex(w, o)[1]
             rest == ListRemove(w.photo_pairs, index)
             w1 == [w EXCEPT !.photo_pairs = rest]
             w2 == IF rest = <<>> THEN [w1 EXCEPT !.current_index = 0]
                   ELSE [w1 EXCEPT !.current_index = Len(rest) - 1]
         IN  Emit(w2, "photo_deleted")

\* faulty variant: the cursor is not moved when an earlier entry is removed
RemoveFromList_keeps_cursor(w, o) ==
    IF ListIndex(w, o) = None THEN w
    ELSE LET index == ListIndex(w, o)[1]
             rest == ListRemove(w.photo_pairs, index)
             w1 == [w EXCEPT !.photo_pairs = rest]
             w2 == IF rest = <<>> THEN [w1 EXCEPT !.current_index = 0]
                   ELSE IF index = w.current_index /\ w.current_index >= Len(rest)
                        THEN [w1 EXCEPT !.current_index = Len(rest) - 1]
                   ELSE w1
         IN  Emit(w2, "photo_deleted")

RemoveFromList(w, o) ==
    IF ListIndex(w, o) = None THEN w
    ELSE LET index == ListIndex(w, o)[1]
             rest == ListRemove(w.photo_pairs, index)
             w1 == [w EXCEPT !.photo_pairs = rest]
             w2 == IF rest = <<>> THEN [w1 EXCEPT !.current_index = 0]
                   ELSE IF index < w.current_index
                        THEN [w1 EXCEPT !.current_index = @ - 1]
                   ELSE IF index = w.current_index /\ w.current_index >= Len(rest)
                        THEN [w1 EXCEPT !.current_index = Len(rest) - 1]
                   ELSE w1
         IN  Emit(w2, "photo_deleted")

\* faulty variant: the RAW file is left on disk
delete_both_files_keeps_raw(w, o) ==
    LET jpeg == has_jpeg(w.disk, w.heap[o])
        w1 == IF jpeg
              THEN [w EXCEPT !.disk = Unlink(w.disk, w.heap[o].jpeg_path),
                             !.heap[o].jpeg_path = None]
              ELSE w
        w3 == RemoveFromList(set_action(w1, o, "delete_all"), o)
    IN  IF jpeg /\ w.heap[o].jpeg_path \in Protected
        THEN Return(Emit(w, "error_occurred"), FALSE)
        ELSE Return(Emit(_save_session_data(w3), "session_updated"), TRUE)

\* faulty variant: a failing unlink is swallowed and the entry is removed anyway
delete_both_files_swallows_failure(w, o) ==
    LET jpeg == has_jpeg(w.disk, w.heap[o])
        w1 == IF jpeg /\ w.heap[o].jpeg_path \notin Protected
              THEN [w EXCEPT !.disk = Unlink(w.disk, w.heap[o].jpeg_path),
                             !.heap[o].jpeg_path = None]
              ELSE w
        raw == has_raw(w1.disk, w1.heap[o])
        w2 == IF raw /\ w1.heap[o].raw_path \notin Protected
              THEN [w1 EXCEPT !.disk = Unlink(w1.disk, w1.heap[o].raw_path),
                              !.heap[o].raw_path = None]
              ELSE w1
        w3 == RemoveFromList(set_action(w2, o, "delete_all"), o)
    IN  Return(Emit(_save_session_data(w3), "session_updated"), TRUE)

delete_both_files(w, o) ==
    LET jpeg == has_jpeg(w.disk, w.heap[o])
        w1 == IF jpeg
              THEN [w EXCEPT !.disk = Unlink(w.disk, w.heap[o].jpeg_path),
                             !.heap[o].jpeg_path = None]
              ELSE w
        raw == has_raw(w1.disk, w1.heap[o])
        w2 == IF raw
              THEN [w1 EXCEPT !.disk = Unlink(w1.disk, w1.heap[o].raw_path),
                              !.heap[o].raw_path = None]
              ELSE w1
        w3 == RemoveFromList(set_action(w2, o, "delete_all"), o)
    IN  IF jpeg /\ w.heap[o].jpeg_path \in Protected
        THEN Return(Emit(w, "error_occurred"), FALSE)
        ELSE IF raw /\ w1.heap[o].raw_path \in Protected
             THEN Return(Emit(w1, "error_occurred"), FALSE)
             ELSE Return(Emit(_save_session_data(w3), "session_updated"), TRUE)

(***************************************************************************)
(* Queries.  On a list index beyond the end Python raises IndexError.      *)
(***************************************************************************)
Raise(w) == [w EXCEPT !.raised = TRUE]

\* faulty variant: the search stops at the end of the list
get_next_unprocessed_index_no_wrap(w, from_index) ==
    LET n == Len(w.photo_pairs)
        start_index == IF from_index # None THEN from_index[1] ELSE w.current_index
        unprocessed(i) == ~has_action(w.heap[w.photo_pairs[i + 1]])
        first == {i \in start_index..(n - 1) : unprocessed(i)}
        least(S) == CHOOSE i \in S : \A j \in S : i <= j
    IN  IF w.photo_pairs = <<>> THEN Return(w, None)
        ELSE IF first # {} THEN Return(w, <<least(first)>>)
        ELSE Return(w, None)

get_next_unprocessed_index(w, from_index) ==
    LET n == Len(w.photo_pairs)
        start_index == IF from_index # None THEN from_index[1] ELSE w.current_index
        unprocessed(i) == ~has_action(w.heap[w.photo_pairs[i + 1]])
        first == {i \in start_index..(n - 1) : unprocessed(i)}
        second == {i \in 0..(start_index - 1) : i >= n \/ unprocessed(i)}
        least(S) == CHOOSE i \in S : \A j \in S : i <= j
    IN  IF w.photo_pairs = <<>> THEN Return(w, None)
        ELSE IF first # {} THEN Return(w, <<least(first)>>)
        ELSE IF second = {} THEN Return(w, None)
        ELSE IF least(second) >= n THEN Raise(w)
        ELSE Return(w, <<least(second)>>)

jump_to_next_unprocessed(w) ==
    LET w1 == get_next_unprocessed_index(w, <<w.current_index + 1>>)
    IN  IF w1.raised THEN w1
        ELSE IF w1.ret # None
             THEN Return([w1 EXCEPT !.current_index = w1.ret[1]], TRUE)
             ELSE Return(w1, FALSE)

\* faulty variant: the photos come back last first
get_photos_by_action_reversed(w, action) ==
    LET found == SelectSeq(w.photo_pairs, LAMBDA o : w.heap[o].action = action)
    IN  Return(w, [i \in 1..Len(found) |-> found[Len(found) + 1 - i]])

get_photos_by_action(w, action) ==
    Return(w, SelectSeq(w.photo_pairs, LAMBDA o : w.heap[o].action = action))

get_unprocessed_photos(w) == get_photos_by_action(w, "none")

\* the loop of get_action_summary over photos[i..]
RECURSIVE SummaryFrom(_, _, _)
SummaryFrom(w, summary, i) ==
    IF i > Len(w.photo_pairs) THEN summary
    ELSE SummaryFrom(w, [summary EXCEPT ![w.heap[w.photo_pairs[i]].action] = @ + 1], i + 1)

get_action_summary(w) ==
    Return(w, SummaryFrom(w, [action \in PhotoAction |-> 0], 1))

(***************************************************************************)
(* Python floats are IEEE-754 binary64.  A positive float is held as the   *)
(* bits of its significand, most significant first, with the exponent of   *)
(* the last bit: value = mant * 2^exp.  Every operation rounds its exact   *)
(* result to MantissaBits bits, to nearest, ties to even.                  *)
(***************************************************************************)
MantissaBits == 53

Zeros(k) == [i \in 1..k |-> 0]

\* bits + 1: the last 0 becomes 1 and the 1s behind it become 0
Increment(bits) ==
    LET zeros == {i \in 1..Len(bits) : bits[i] = 0}
        last == CHOOSE i \in zeros : \A j \in zeros : j <= i
    IN  IF zeros = {} THEN <<1>> \o Zeros(Len(bits))
        ELSE [i \in 1..Len(bits) |->
                IF i < last THEN bits[i] ELSE IF i = last THEN 1 ELSE 0]

RECURSIVE Strip(_)
Strip(bits) == IF bits # <<>> /\ Head(bits) = 0 THEN Strip(Tail(bits)) ELSE bits

RECURSIVE Pow2(_)
Pow2(k) == IF k = 0 THEN 1 ELSE 2 * Pow2(k - 1)

\* the number that the first i bits spell
RECURSIVE BitsToNat(_, _)
BitsToNat(bits, i) == IF i = 0 THEN 0 ELSE 2 * BitsToNat(bits, i - 1) + bits[i]

NatToBits(x, width) == [i \in 1..width |-> (x \div Pow2(width - i)) % 2]

\* bits (leading 1) times 2^exp, followed by something nonzero if sticky,
\* rounded to MantissaBits bits
RoundFloat(bits, exp, sticky) ==
    IF Len(bits) <= MantissaBits THEN [mant |-> bits, exp |-> exp]
    ELSE LET keep == SubSeq(bits, 1, MantissaBits)
             guard == bits[MantissaBits + 1]
             rest == sticky \/ \E i \in (MantissaBits + 2)..Len(bits) : bits[i] = 1
             up == guard = 1 /\ (rest \/ keep[MantissaBits] = 1)
         IN  [mant |-> IF up THEN Increment(keep) ELSE keep,
              exp |-> exp + (Len(bits) - MantissaBits)]

\* the significand is cut into limbs of LimbBits bits for the arithmetic
LimbBits == 20

RECURSIVE ShiftTo(_, _, _)
ShiftTo(p, n, s) == IF p >= n THEN s ELSE ShiftTo(2 * p, n, s + 1)

\* processed / total for 0 < processed <= total: long division of
\* r = processed * 2^s, the least with n <= r, which yields the leading 1
\* and then MantissaBits further bits, the last of them the rounding bit
FloatDiv(p, n) ==
    LET s == ShiftTo(p, n, 0)
        r == p * Pow2(s)
        last == MantissaBits - 2 * LimbBits
        t1 == (r - n) * Pow2(LimbBits)
        t2 == (t1 % n) * Pow2(LimbBits)
        t3 == (t2 % n) * Pow2(last)
        quotient == <<1>> \o NatToBits(t1 \div n, LimbBits)
                    \o NatToBits(t2 \div n, LimbBits) \o NatToBits(t3 \div n, last)
    IN  RoundFloat(quotient, 0 - s - MantissaBits, t3 % n # 0)

\* x * 100, limb by limb from the least significant
FloatTimes100(x) ==
    LET padded == Zeros(3 * LimbBits - Len(x.mant)) \o x.mant
        limb(k) == BitsToNat(SubSeq(padded, (k - 1) * LimbBits + 1, k * LimbBits), LimbBits)
        base == Pow2(LimbBits)
        p3 == limb(3) * 100
        p2 == limb(2) * 100 + p3 \div base
        p1 == limb(1) * 100 + p2 \div base
        product == NatToBits(p1, LimbBits + 7) \o NatToBits(p2 % base, LimbBits)
                   \o NatToBits(p3 % base, LimbBits)
    IN  RoundFloat(Strip(product), x.exp, FALSE)

\* int(x): the fraction is cut off
FloatToInt(x) ==
    IF x.exp >= 0 THEN BitsToNat(x.mant, Len(x.mant)) * Pow2(x.exp)
    ELSE IF Len(x.mant) + x.exp <= 0 THEN 0
    ELSE BitsToNat(x.mant, Len(x.mant) + x.exp)

get_session_progress(w) ==
    LET processed == Cardinality({i \in 1..Len(w.photo_pairs) :
                                     has_action(w.heap[w.photo_pairs[i]])})
        total == Len(w.photo_pairs)
        percentage == IF total > 0
                      THEN IF processed = 0 THEN 0
                           ELSE FloatToInt(FloatTimes100(FloatDiv(processed, total)))
                      ELSE 0
    IN  IF w.photo_pairs = <<>> THEN Return(w, <<0, 0, 0>>)
        ELSE Return(w, <<processed, total, percentage>>)

(***************************************************************************)
(* CountdownWidget.  remaining_time is held in ticks of 0.05 s.            *)
(***************************************************************************)
countdown_seconds == 5
TicksPerSecond == 20

start_countdown(w) ==
    [w EXCEPT !.remaining_time = countdown_seconds * TicksPerSecond,
              !.timer_active = TRUE]

StopTimer(w) == [w EXCEPT !.timer_active = FALSE]

\* remaining_time <= 0 in binary floating point: 5.0 less 0.05 a hundred
\* times is 9.4e-15, still above zero, and the next tick takes it below
Expired(r) == r < 0

(***************************************************************************)
(* MainWindow: the pending action and its handlers.  A handler is an       *)
(* operator from the state before it to the state after it; an exception   *)
(* that leaves the handler sets crashed (PyQt6 aborts the process on an    *)
(* unhandled exception in a slot).                                         *)
(***************************************************************************)
PendingAction(action_type, photo, previous_index) ==
    [action_type |-> action_type, photo |-> photo,
     description |-> <<action_type, photo>>,
     action_func |-> [name |-> "execute_" \o action_type, photo |-> photo],
     previous_index |-> previous_index]

Log(w, ev) == [w EXCEPT !.events = Append(@, ev)]

\* faulty variant: the cancelled action stays recorded as pending
_cancel_pending_action_keeps_pending(w) ==
    IF w.pending_action = None THEN w
    ELSE Log([w EXCEPT !.current_index = w.pending_action[1].previous_index,
                       !.staged.status = "cancelled"], "cancel")

\* faulty variant: the cursor is not restored
_cancel_pending_action_keeps_cursor(w) ==
    IF w.pending_action = None THEN w
    ELSE Log([w EXCEPT !.pending_action = None,
                       !.staged.status = "cancelled"], "cancel")

_cancel_pending_action(w) ==
    IF w.pending_action = None THEN w
    ELSE Log([w EXCEPT !.current_index = w.pending_action[1].previous_index,
                       !.pending_action = None,
                       !.staged.status = "cancelled"], "cancel")

\* CountdownWidget._cancel_action: emits action_cancelled
_cancel_action(w) == _cancel_pending_action(StopTimer(w))

\* the closures execute_delete_raw and execute_delete_all
action_func(w, f) ==
    IF f.name = "execute_delete_raw"
    THEN delete_raw_only(w, f.photo)
    ELSE LET w1 == delete_both_files(w, f.photo)
         IN  IF w1.ret
             THEN [w1 EXCEPT !.crashed = TRUE]  \* no remove_current_photo_from_list
             ELSE w1

_execute_pending_action(w) ==
    IF w.pending_action = None THEN w
    ELSE LET w1 == Log([StopTimer(w) EXCEPT
                           !.staged.invoked = @ + 1,
                           !.staged.status = IF @ = "cancelled" THEN "revived"
                                             ELSE "committed"], "commit")
             w2 == action_func(w1, w.pending_action[1].action_func)
         IN  IF w2.crashed THEN w2
             ELSE [w2 EXCEPT !.pending_action = None]

\* CountdownWidget._confirm_action: emits action_confirmed
_confirm_action(w) == _execute_pending_action(StopTimer(w))

\* faulty variant: the cursor is not advanced after staging
_start_pending_action_stays(w, action_type, captured) ==
    IF current_photo_ref(w) = None THEN w
    ELSE LET photo == current_photo_ref(w)[1]
             w1 == IF w.pending_action # None THEN _cancel_action(w) ELSE w
             w2 == [w1 EXCEPT
                      !.pending_action =
                          <<[PendingAction(action_type, photo, w1.current_index)
                               EXCEPT !.action_func.photo = captured]>>,
                      !.staged = [status |-> "staged", invoked |-> 0,
                                  loads |-> w.loads,
                                  cursor |-> w.current_index,
                                  target |-> <<w.heap[captured]>>,
                                  files |-> <<has_jpeg(w.disk, w.heap[captured]),
                                              has_raw(w.disk, w.heap[captured])>>]]
         IN  start_countdown(Log(w2, "stage"))

_start_pending_action(w, action_type, captured) ==
    IF current_photo_ref(w) = None THEN w
    ELSE LET photo == current_photo_ref(w)[1]
             w1 == IF w.pending_action # None THEN _cancel_action(w) ELSE w
             w2 == [w1 EXCEPT
                      !.pending_action =
                          <<[PendingAction(action_type, photo, w1.current_index)
                               EXCEPT !.action_func.photo = captured]>>,
                      !.staged = [status |-> "staged", invoked |-> 0,
                                  loads |-> w.loads,
                                  cursor |-> w.current_index,
                                  target |-> <<w.heap[captured]>>,
                                  files |-> <<has_jpeg(w.disk, w.heap[captured]),
                                              has_raw(w.disk, w.heap[captured])>>]]
         IN  move_to_next(start_countdown(Log(w2, "stage")))

_keep_all_files(w) ==
    IF current_photo_ref(w) = None THEN w
    ELSE LET photo == current_photo_ref(w)[1]
             w1 == IF w.pending_action # None
                   THEN _execute_pending_action(w) ELSE w
             w2 == keep_both_files(w1, photo)
         IN  IF w1.crashed THEN w1 ELSE move_to_next(w2)

_skip_photo(w) ==
    IF current_photo_ref(w) = None THEN w
    ELSE LET photo == current_photo_ref(w)[1]
             w1 == IF w.pending_action # None
                   THEN _execute_pending_action(w) ELSE w
             w2 == Emit(_save_session_data(set_action(w1, photo, "skipped")),
                        "session_updated")
         IN  IF w1.crashed THEN w1 ELSE move_to_next(w2)

\* faulty variant: the pending action is not flushed before the new one
_delete_raw_file_without_flush(w) ==
    IF current_photo_ref(w) = None THEN w
    ELSE IF ~has_raw(w.disk, w.heap[current_photo_ref(w)[1]]) THEN w
    ELSE _start_pending_action(w, "delete_raw", current_photo_ref(w)[1])

_delete_raw_file(w) ==
    IF current_photo_ref(w) = None THEN w
    ELSE LET photo == current_photo_ref(w)[1]
             w1 == IF w.pending_action # None
                   THEN _execute_pending_action(w) ELSE w
         IN  IF ~has_raw(w.disk, w.heap[photo]) THEN w
             ELSE IF w1.crashed THEN w1
             ELSE _start_pending_action(w1, "delete_raw", photo)

_delete_all_files(w) ==
    IF current_photo_ref(w) = None THEN w
    ELSE LET photo == current_photo_ref(w)[1]
             w1 == IF w.pending_action # None
                   THEN _execute_pending_action(w) ELSE w
         IN  IF w1.crashed THEN w1
             ELSE _start_pending_action(w1, "delete_all", photo)

_next_photo(w) == IF w.pending_action # None THEN w ELSE move_to_next(w)

_previous_photo(w) == IF w.pending_action # None THEN w ELSE move_to_previous(w)

\* faulty variant: undo confirms the pending action
_undo_action_confirms(w) == IF w.pending_action # None THEN _confirm_action(w) ELSE w

_undo_action(w) == IF w.pending_action # None THEN _cancel_action(w) ELSE w

_update_countdown(w) ==
    LET w1 == [w EXCEPT !.remaining_time = @ - 1]
    IN  IF Expired(w1.remaining_time) THEN _confirm_action(w1) ELSE w1

\* _open_folder and _on_folder_dropped; the PhotoPair of a pending action
\* stays referenced by it
_open_folder(w, folder) ==
    LET w1 == load_folder(w, folder,
                  IF w.pending_action = None THEN {}
                  ELSE {w.pending_action[1].photo, w.pending_action[1].action_func.photo})
        w2 == [w1 EXCEPT !.loads = @ + 1]
    IN  IF w2.ret THEN w2 ELSE [w2 EXCEPT !.dialog_open = TRUE]  \* _on_error

(***************************************************************************)
(* State.                                                                  *)
(***************************************************************************)
VARIABLES
    disk,            \* folder -> the files of the directory, in iterdir order
    sidecar,         \* folder -> content of its .photosift_session.json
    current_folder, photo_pairs, current_index, session_data, preferences,
    heap,            \* object id -> PhotoPair
    clock,           \* datetime.now()
    pending_action,  \* MainWindow.pending_action
    timer_active, remaining_time,   \* CountdownWidget
    dialog_open,     \* the modal QMessageBox of _on_error is on screen
    crashed,         \* an exception left a handler
    loads,           \* how many folders have been opened
    call,            \* the PhotoManager method a direct caller invoked last
    events,          \* what the last handler did to pending actions, in order
    staged           \* the most recently staged action and the state it was staged in

vars == <<disk, sidecar, current_folder, photo_pairs, current_index, session_data,
          preferences, heap, clock, pending_action, timer_active, remaining_time,
          dialog_open, crashed, loads, call, events, staged>>

World ==
    [disk |-> disk, sidecar |-> sidecar, current_folder |-> current_folder,
     photo_pairs |-> photo_pairs, current_index |-> current_index,
     session_data |-> session_data, preferences |-> preferences, heap |-> heap,
     clock |-> clock, pending_action |-> pending_action,
     timer_active |-> timer_active, remaining_time |-> remaining_time,
     dialog_open |-> dialog_open, crashed |-> crashed, staged |-> staged,
     loads |-> loads,
     signals |-> <<>>, events |-> <<>>, ret |-> FALSE, raised |-> FALSE]

NoCall ==
    [op |-> "none", photo |-> 0, ret |-> FALSE, at |-> None, cursor |-> 0,
     arg |-> None, result |-> None, raised |-> FALSE]

NoStage ==
    [status |-> "none", invoked |-> 0, loads |-> 0, cursor |-> 0, target |-> None,
     files |-> <<FALSE, FALSE>>]

\* objects that neither the list nor the pending action references are gone
Collect(w) ==
    LET live == {w.photo_pairs[i] : i \in 1..Len(w.photo_pairs)}
                \cup (IF w.pending_action = None THEN {}
                      ELSE {w.pending_action[1].photo,
                            w.pending_action[1].action_func.photo})
    IN  [o \in live |-> w.heap[o]]

Becomes(w, c) ==
    /\ disk' = w.disk
    /\ sidecar' = w.sidecar
    /\ current_folder' = w.current_folder
    /\ photo_pairs' = w.photo_pairs
    /\ current_index' = w.current_index
    /\ session_data' = w.session_data
    /\ preferences' = w.preferences
    /\ heap' = Collect(w)
    /\ clock' = w.clock
    /\ pending_action' = w.pending_action
    /\ timer_active' = w.timer_active
    /\ remaining_time' = w.remaining_time
    /\ dialog_open' = w.dialog_open
    /\ crashed' = w.crashed
    /\ staged' = IF w.pending_action = None
                 THEN [NoStage EXCEPT !.status = w.staged.status,
                                      !.invoked = w.staged.invoked]
                 ELSE w.staged
    /\ call' = c
    /\ events' = w.events
    /\ loads' = w.loads

\* the user can act: the process runs and no modal dialog blocks the window;
\* the model follows the user while loads and timestamps stay below the bound
Idle == ~crashed /\ ~dialog_open /\ loads + (clock - 1) < MaxEffects

(***************************************************************************)
(* The directories the session starts with.                                *)
(***************************************************************************)

\* F1 holds the pairs a and b, or a pair a and a JPEG-only b
Listings1 ==
    { << <<NameB, ".jpg">>, <<NameA, ".jpg">>,
         <<NameA, ".cr2">>, <<NameB, ".cr2">>, <<NameC, ".txt">> >>,
      << <<NameB, ".jpg">>, <<NameA, ".jpg">>, <<NameA, ".cr2">> >> }

\* F2 holds one JPEG, or no file at all
Listings2 == { << <<NameA, ".jpg">> >>, <<>> }

\* the directory trees a run starts from: the full F1 beside the F2 with a
\* file, the smaller F1 beside the empty F2
Trees ==
    { [f \in {"F1", "F2"} |-> IF f = "F1" THEN l1 ELSE l2] :
        <<l1, l2>> \in { <<a, b>> \in Listings1 \X Listings2 : (Len(a) = 5) = (b # <<>>) } }

NoSidecar == [kind |-> "missing", actions |-> [kind |-> "absent", map |-> EmptyMap]]

JsonRecord(shape, has_key, action, timestamp) ==
    [shape |-> shape, has_key |-> has_key, action |-> action, timestamp |-> timestamp]

Sidecars2 ==
    { [kind |-> "object", actions |-> [kind |-> "null", map |-> EmptyMap]] }

Init ==
    /\ \E d \in Trees : disk = d
    /\ \E s2 \in Sidecars2 :
           sidecar = [f \in {"F1", "F2"} |-> IF f = "F2" THEN s2 ELSE NoSidecar]
    /\ current_folder = None
    /\ photo_pairs = <<>>
    /\ current_index = 0
    /\ session_data = EmptyDict
    /\ preferences = None
    /\ heap = [o \in {} |-> PhotoPair(<<>>)]
    /\ clock = 1
    /\ pending_action = None
    /\ timer_active = FALSE
    /\ remaining_time = 0
    /\ dialog_open = FALSE
    /\ crashed = FALSE
    /\ loads = 0
    /\ call = NoCall
    /\ events = <<>>
    /\ staged = NoStage

(***************************************************************************)
(* Events of the window.                                                   *)
(***************************************************************************)
OpenFolder ==
    /\ Idle
    /\ \E folder \in DOMAIN disk \cup NoFolder : Becomes(_open_folder(World, folder), NoCall)

DismissDialog ==
    /\ ~crashed /\ dialog_open
    /\ Becomes([World EXCEPT !.dialog_open = FALSE], NoCall)

KeepAll == Idle /\ Becomes(_keep_all_files(World), NoCall)

Skip == Idle /\ Becomes(_skip_photo(World), NoCall)

DeleteRaw == Idle /\ Becomes(_delete_raw_file(World), NoCall)

DeleteAll == Idle /\ Becomes(_delete_all_files(World), NoCall)

NextPhoto == Idle /\ Becomes(_next_photo(World), NoCall)

PreviousPhoto == Idle /\ Becomes(_previous_photo(World), NoCall)

\* the shortcuts U and Ctrl+Z
Undo == Idle /\ Becomes(_undo_action(World), NoCall)

\* the Undo button of the countdown widget, clickable while the widget shows
UndoButton == Idle /\ timer_active /\ Becomes(_cancel_action(World), NoCall)

\* the QTimer fires, also while a modal dialog runs its event loop
Tick ==
    /\ ~crashed /\ timer_active
    /\ Becomes(_update_countdown(World), NoCall)

Next ==
    \/ OpenFolder
    \/ DismissDialog
    \/ KeepAll
    \/ Skip
    \/ DeleteRaw
    \/ DeleteAll
    \/ NextPhoto
    \/ PreviousPhoto
    \/ Undo
    \/ UndoButton
    \/ Tick

Spec == Init /\ [][Next]_vars

\* the event loop delivers the timeout of a running QTimer: a tick that
\* stays possible is eventually handled
SpecFair == Spec /\ WF_vars(Tick)

(***************************************************************************)
(* The window on a folder of three entries: a and c have a JPEG only, and  *)
(* the RAW file of b, between them, cannot be deleted.                     *)
(***************************************************************************)
ListingTrio ==
    << <<NameC, ".jpg">>, <<NameB, ".jpg">>, <<NameB, ".cr2">>, <<NameA, ".jpg">> >>

InitTrio ==
    /\ disk = [f \in {"F1"} |-> ListingTrio]
    /\ sidecar = [f \in {"F1"} |-> NoSidecar]
    /\ current_folder = None
    /\ photo_pairs = <<>>
    /\ current_index = 0
    /\ session_data = EmptyDict
    /\ preferences = None
    /\ heap = [o \in {} |-> PhotoPair(<<>>)]
    /\ clock = 1
    /\ pending_action = None
    /\ timer_active = FALSE
    /\ remaining_time = 0
    /\ dialog_open = FALSE
    /\ crashed = FALSE
    /\ loads = 0
    /\ call = NoCall
    /\ events = <<>>
    /\ staged = NoStage

SpecTrio == InitTrio /\ [][Next]_vars

(***************************************************************************)
(* PhotoManager driven directly, as the test scripts drive it: a caller    *)
(* constructs it with or without preferences and calls its methods on any  *)
(* photo of the list.                                                      *)
(***************************************************************************)
ListingsM ==
    { << <<NameB, ".jpg">>, <<NameA, ".jpg">>, <<NameC, ".CR2">>,
         <<NameA, ".cr2">>, <<NameB, ".cr2">>, <<NameC, ".txt">> >> }

Json(actions_kind, map) == [kind |-> "object", actions |-> [kind |-> actions_kind, map |-> map]]

Valid(action, timestamp) == JsonRecord("object", TRUE, action, timestamp)

\* sidecar files found in F1 (entries a, b, c): none, text that is not a
\* JSON object, and objects whose "actions" value is well formed or not
SidecarsM ==
    { NoSidecar,
      [kind |-> "invalid", actions |-> [kind |-> "absent", map |-> EmptyMap]],
      Json("absent", EmptyMap),
      Json("null", EmptyMap),
      Json("list", [n \in {NameA} |-> None]),
      Json("dict", [n \in {NameA, NameB} |->
                      IF n = NameA THEN Valid("keep_all", isoformat(0))
                      ELSE Valid("skipped", None)]),
      Json("dict", [n \in {NameA, NameB, NameC} |-> Valid("keep_all", isoformat(0))]),
      Json("dict", [n \in {NameA, NameB} |->
                      IF n = NameA THEN Valid("bogus", isoformat(0))
                      ELSE Valid("delete_raw", <<"text">>)]),
      Json("dict", [n \in {NameA, NameB} |->
                      IF n = NameA THEN JsonRecord("object", FALSE, "none", None)
                      ELSE Valid("none", isoformat(0))]),
      Json("dict", [n \in {NameB} |-> JsonRecord("string", FALSE, "none", None)]),
      Json("dict", [n \in {NameB} |-> Valid("keep_all", <<"number">>)]) }

Sidecars2M ==
    { Json("dict", [n \in {NameA} |-> Valid("keep_all", isoformat(0))]) }

InitManager ==
    /\ \E l1 \in ListingsM :
           disk = [f \in {"F1", "F2", "locked"} |->
                      IF f = "F1" THEN l1
                      ELSE IF f = "F2" THEN << <<NameA, ".jpg">> >> ELSE <<>>]
    /\ \E s1 \in SidecarsM, s2 \in Sidecars2M :
           sidecar = [f \in {"F1", "F2", "locked"} |->
                         IF f = "F1" THEN s1 ELSE IF f = "F2" THEN s2 ELSE NoSidecar]
    /\ current_folder = None
    /\ photo_pairs = <<>>
    /\ current_index = 0
    /\ session_data = EmptyDict
    /\ preferences \in {None, <<TRUE>>, <<FALSE>>}
    /\ heap = [o \in {} |-> PhotoPair(<<>>)]
    /\ clock = 1
    /\ pending_action = None
    /\ timer_active = FALSE
    /\ remaining_time = 0
    /\ dialog_open = FALSE
    /\ crashed = FALSE
    /\ loads = 0
    /\ call = NoCall
    /\ events = <<>>
    /\ staged = NoStage

Called(op, o, w) ==
    [op |-> op, photo |-> o, ret |-> w.ret,
     at |-> IF o \in Range(photo_pairs)
            THEN <<(CHOOSE i \in 1..Len(photo_pairs) : photo_pairs[i] = o) - 1>>
            ELSE None,
     cursor |-> current_index,
     arg |-> None, result |-> None, raised |-> FALSE]

\* a call of a query: its argument, what it returned, whether it raised
Queried(op, arg, w) ==
    [Called(op, 0, w) EXCEPT !.ret = FALSE, !.arg = arg,
                             !.result = IF w.raised THEN None ELSE w.ret,
                             !.raised = w.raised]

CallerActs == loads + (clock - 1) < MaxEffects

CallLoadFolder ==
    /\ CallerActs
    /\ \E folder \in DOMAIN disk \cup NoFolder :
          LET w == load_folder(World, folder, {})
          IN  Becomes([w EXCEPT !.loads = @ + 1], Called("load_folder", 0, w))

CallMoveToNext ==
    CallerActs /\ LET w == move_to_next(World) IN Becomes(w, Called("move_to_next", 0, w))

CallMoveToPrevious ==
    CallerActs /\ LET w == move_to_previous(World)
                  IN  Becomes(w, Called("move_to_previous", 0, w))

CallKeepBothFiles ==
    /\ CallerActs
    /\ \E o \in Range(photo_pairs) :
          LET w == keep_both_files(World, o) IN Becomes(w, Called("keep_both_files", o, w))

CallDeleteRawOnly ==
    /\ CallerActs
    /\ \E o \in Range(photo_pairs) :
          LET w == delete_raw_only(World, o) IN Becomes(w, Called("delete_raw_only", o, w))

CallDeleteBothFiles ==
    /\ CallerActs
    /\ \E o \in Range(photo_pairs) :
          LET w == delete_both_files(World, o)
          IN  Becomes(w, Called("delete_both_files", o, w))

\* the session is saved and its directory is loaded into a new PhotoManager,
\* which takes the place of the old one
CallSaveAndLoadFresh ==
    /\ current_folder # None
    /\ LET w0 == _save_session_data(World)
           fresh == [w0 EXCEPT !.photo_pairs = <<>>, !.current_index = 0,
                               !.session_data = EmptyDict, !.current_folder = None]
           w == load_folder(fresh, current_folder[1], {})
       IN  Becomes(w, Called("save_load", 0, w))

NextManager ==
    \/ CallSaveAndLoadFresh
    \/ CallLoadFolder
    \/ CallMoveToNext
    \/ CallMoveToPrevious
    \/ CallKeepBothFiles
    \/ CallDeleteRawOnly
    \/ CallDeleteBothFiles

SpecManager == InitManager /\ [][NextManager]_vars

(***************************************************************************)
(* PhotoManager asked where the next unreviewed photo is, between loads,   *)
(* navigation and reviews.                                                 *)
(***************************************************************************)
CallGetNextUnprocessedIndex ==
    /\ ~crashed
    /\ \E from_index \in {None} \cup {<<s>> : s \in 0..Len(photo_pairs)} :
          LET w == get_next_unprocessed_index(World, from_index)
          IN  Becomes([w EXCEPT !.raised = FALSE],
                      Queried("get_next_unprocessed_index", from_index, w))

CallJumpToNextUnprocessed ==
    /\ ~crashed
    /\ LET w == jump_to_next_unprocessed(World)
       IN  Becomes([w EXCEPT !.raised = FALSE],
                   [Queried("jump_to_next_unprocessed", None, w)
                       EXCEPT !.ret = ~w.raised /\ w.ret, !.result = None])

NextQuery ==
    \/ CallLoadFolder
    \/ CallMoveToNext
    \/ CallMoveToPrevious
    \/ CallKeepBothFiles
    \/ CallGetNextUnprocessedIndex
    \/ CallJumpToNextUnprocessed

SpecQuery == InitManager /\ [][NextQuery]_vars

(***************************************************************************)
(* PhotoManager asked for the progress of a session.  The session is the   *)
(* one load_folder builds from a directory of up to MaxPhotos JPEG files   *)
(* named 00, 01, ... whose sidecar records the first few as kept.          *)
(***************************************************************************)
MaxPhotos == 50

ch0 == 48

PhotoName(i) == <<ch0 + (i \div 10), ch0 + (i % 10)>>

ListingProgress(n) == [i \in 1..n |-> <<PhotoName(n - i), ".jpg">>]

SidecarProgress(p) ==
    Json("dict", [name \in {PhotoName(i) : i \in 0..(p - 1)} |->
                    Valid("keep_all", isoformat(0))])

\* the PhotoPair that the scan and the sidecar make of the file at place o
\* of the sorted list
LoadedPhoto(o, p) ==
    [PhotoPair(PhotoName(o - 1))
        EXCEPT !.jpeg_path = <<"F1", PhotoName(o - 1), ".jpg">>,
               !.action = IF o <= p THEN "keep_all" ELSE "none",
               !.action_timestamp = IF o <= p THEN <<0>> ELSE None]

InitProgress ==
    /\ \E n \in 0..MaxPhotos : disk = [f \in {"F1"} |-> ListingProgress(n)]
    /\ \E p \in 0..Len(disk["F1"]) :
          /\ sidecar = [f \in {"F1"} |-> SidecarProgress(p)]
          /\ session_data = SidecarProgress(p).actions
          /\ heap = [o \in 1..Len(disk["F1"]) |-> LoadedPhoto(o, p)]
          /\ current_index = IF p < Len(disk["F1"]) THEN p ELSE 0
    /\ photo_pairs = [i \in 1..Len(disk["F1"]) |-> i]
    /\ current_folder = <<"F1">>
    /\ preferences = None
    /\ clock = 1
    /\ pending_action = None
    /\ timer_active = FALSE
    /\ remaining_time = 0
    /\ dialog_open = FALSE
    /\ crashed = FALSE
    /\ loads = 1
    /\ call = [NoCall EXCEPT !.op = "load_folder", !.ret = TRUE]
    /\ events = <<>>
    /\ staged = NoStage

CallGetSessionProgress ==
    /\ ~crashed
    /\ LET w == get_session_progress(World)
       IN  Becomes(w, Queried("get_session_progress", None, w))

NextProgress == CallGetSessionProgress

SpecProgress == InitProgress /\ [][NextProgress]_vars

(***************************************************************************)
(* PhotoManager on a directory of any few files: names that differ in case *)
(* only, names in any order, extensions in mixed case, files of a kind the *)
(* scan does not know.                                                     *)
(***************************************************************************)
MaxFiles == 3

NameUpperA == <<chA>>
NameUpperB == <<chB>>

ScanFiles ==
    { <<NameA, ".jpg">>, <<NameA, ".cr2">>, <<NameUpperA, ".jpg">>,
      <<NameUpperB, ".CR2">>, <<NameC, ".txt">>, <<NameA, ".txt">>,
      <<NameC, ".Jpg">>, <<NameC, ".Cr2">> }

\* what iterdir() can yield: up to MaxFiles different files in any order
ListingsScan ==
    { l \in UNION { [1..n -> ScanFiles] : n \in 0..MaxFiles } :
        \A i, j \in 1..Len(l) : i # j => l[i] # l[j] }

InitScan ==
    /\ \E l \in ListingsScan : disk = [f \in {"F1"} |-> l]
    /\ sidecar = [f \in {"F1"} |-> NoSidecar]
    /\ current_folder = None
    /\ photo_pairs = <<>>
    /\ current_index = 0
    /\ session_data = EmptyDict
    /\ preferences = None
    /\ heap = [o \in {} |-> PhotoPair(<<>>)]
    /\ clock = 1
    /\ pending_action = None
    /\ timer_active = FALSE
    /\ remaining_time = 0
    /\ dialog_open = FALSE
    /\ crashed = FALSE
    /\ loads = 0
    /\ call = NoCall
    /\ events = <<>>
    /\ staged = NoStage

NextScan ==
    \/ CallLoadFolder
    \/ CallDeleteRawOnly
    \/ CallDeleteBothFiles

SpecScan == InitScan /\ [][NextScan]_vars

(***************************************************************************)
(* PhotoManager asked for the photos of each action and for the summary,   *)
(* on a directory whose sidecar records any action for a and for b; the    *)
(* RAW-only c is unreviewed.                                               *)
(***************************************************************************)
SidecarsSidebar ==
    { Json("dict", [n \in {NameA, NameB} |->
                      IF n = NameA THEN Valid(a, isoformat(0)) ELSE Valid(b, isoformat(0))]) :
        <<a, b>> \in PhotoAction \X PhotoAction }

InitSidebar ==
    /\ \E l \in ListingsM : disk = [f \in {"F1"} |-> l]
    /\ \E s \in SidecarsSidebar : sidecar = [f \in {"F1"} |-> s]
    /\ current_folder = None
    /\ photo_pairs = <<>>
    /\ current_index = 0
    /\ session_data = EmptyDict
    /\ preferences = None
    /\ heap = [o \in {} |-> PhotoPair(<<>>)]
    /\ clock = 1
    /\ pending_action = None
    /\ timer_active = FALSE
    /\ remaining_time = 0
    /\ dialog_open = FALSE
    /\ crashed = FALSE
    /\ loads = 0
    /\ call = NoCall
    /\ events = <<>>
    /\ staged = NoStage

CallGetPhotosByAction ==
    /\ ~crashed
    /\ \E action \in PhotoAction :
          LET w == get_photos_by_action(World, action)
          IN  Becomes(w, Queried("get_photos_by_action", <<action>>, w))

CallGetUnprocessedPhotos ==
    /\ ~crashed
    /\ LET w == get_unprocessed_photos(World)
       IN  Becomes(w, Queried("get_unprocessed_photos", None, w))

CallGetActionSummary ==
    /\ ~crashed
    /\ LET w == get_action_summary(World)
       IN  Becomes(w, Queried("get_action_summary", None, w))

NextSidebar ==
    \/ CallLoadFolder
    \/ CallKeepBothFiles
    \/ CallDeleteBothFiles
    \/ CallGetPhotosByAction
    \/ CallGetUnprocessedPhotos
    \/ CallGetActionSummary

SpecSidebar == InitSidebar /\ [][NextSidebar]_vars

(***************************************************************************)
(* Claims.                                                                 *)
(***************************************************************************)
CursorValid == current_index >= 0 /\ current_index < Len(photo_pairs)

\* C1: whenever the entry sequence is non-empty, 0 <= cursor < len(sequence),
\* so that current() is an entry of the sequence.
C1_CursorRefersToEntry == photo_pairs # <<>> => CursorValid

\* the step runs _cancel_pending_action on a pending action
CancelStep == "cancel" \in Range(events')

\* the step invokes the callback of the pending action
CommitStep == "commit" \in Range(events')

\* the step records a new pending action
StageStep == "stage" \in Range(events')

Target == pending_action[1].action_func.photo

\* C2: what a cancel finds and leaves: the callback of the pending action has
\* not run, its target has the fields and the files it was staged with, the
\* cancel removes nothing from the sequence, and the target is still in it
\* (unless a load has replaced the sequence since the action was staged).
CancelLeavesTarget ==
    /\ staged.status = "staged" /\ staged.invoked = 0
    /\ heap[Target] = staged.target[1]
    /\ <<has_jpeg(disk', heap[Target]), has_raw(disk', heap[Target])>> = staged.files
    /\ disk' = disk /\ sidecar' = sidecar
    /\ photo_pairs' = photo_pairs
    /\ Target \in Range(photo_pairs') => heap'[Target] = staged.target[1]
    /\ loads = staged.loads => Target \in Range(photo_pairs')

C3_ConfirmClearsPending ==
    (events # <<>> /\ events[Len(events)] = "commit")
        => (pending_action = None /\ staged.invoked = 1)

\* C4: a delete request that arrives while an action is pending invokes that
\* action's callback and only then records the new action; it never cancels
\* the earlier one, and one action is pending afterwards.
C4_StageFlushesPending ==
    [][(StageStep /\ pending_action # None)
          => (events' = <<"commit", "stage">> /\ Len(pending_action') = 1
              /\ staged.invoked = 0 /\ staged'.invoked = 0)]_vars

C4_Witness == events = <<"commit", "stage">> /\ pending_action # None

\* C5: after a cancel the cursor is what it was immediately before the
\* cancelled action was staged, whatever happened in between.
C5_CancelRestoresCursor == [][CancelStep => current_index' = staged.cursor]_vars

C5_Witness ==
    /\ events = <<"cancel">>
    /\ photo_pairs # <<>> /\ current_folder = <<"F2">> /\ current_index = 1

\* C8: no handler ends in an unhandled exception.
C8_NoUnhandledException == ~crashed

\* the paths of a PhotoPair that are set
Paths(p) == {path \in {p.jpeg_path, p.raw_path} : path # None}

DeleteAllCommitStep == CommitStep /\ pending_action[1].action_type = "delete_all"

TargetGone ==
    /\ Target \notin Range(photo_pairs')
    /\ \A path \in Paths(heap[Target]) : ~FileExists(disk', path)

FailedLoadStep == loads' = loads + 1 /\ dialog_open'

\* C7: a load that fails leaves the directory, the sequence, the cursor and
\* the loaded action mapping as they were.
C7_FailedLoadChangesNothing ==
    [][FailedLoadStep
          => UNCHANGED <<current_folder, photo_pairs, current_index, session_data>>]_vars

(***************************************************************************)
(* delete_both_files called directly.                                      *)
(***************************************************************************)
DeleteBothCall == call'.op = "delete_both_files" /\ call'.at # None

Min(a, b) == IF a < b THEN a ELSE b

\* the cursor and the list the specification prescribes after entry i of n is
\* removed while the cursor is at c
Reindexed ==
    LET i == call'.at[1]
        c == current_index
        n == Len(photo_pairs)
    IN  /\ photo_pairs' = ListRemove(photo_pairs, i)
        /\ current_index' = IF n = 1 THEN 0
                            ELSE IF i < c THEN c - 1
                            ELSE IF i = c THEN Min(c, n - 2)
                            ELSE c
        /\ n = 1 => photo_pairs' = <<>>

PartialFailureCall ==
    /\ DeleteBothCall
    /\ LET p == heap[call'.photo]
       IN  /\ has_jpeg(disk, p) /\ p.jpeg_path \notin Protected
           /\ has_raw(disk, p) /\ p.raw_path \in Protected

LoadSucceeded == call.op = "load_folder" /\ call.ret

ResumeEnabled == preferences = None \/ preferences[1]

Unreviewed == {i \in 0..(Len(photo_pairs) - 1) : heap[photo_pairs[i + 1]].action = "none"}

\* C11: after a successful load the cursor is the smallest index whose entry
\* has action none when resume is enabled (or no preferences object is given)
\* and such an entry exists; otherwise the cursor is 0.
C11_ResumeIndex ==
    LoadSucceeded =>
        IF ResumeEnabled /\ Unreviewed # {}
        THEN current_index \in Unreviewed /\ \A i \in Unreviewed : current_index <= i
        ELSE current_index = 0

C11_Witness ==
    /\ LoadSucceeded /\ preferences = <<TRUE>>
    /\ current_index = 2 /\ Len(photo_pairs) = 3

(***************************************************************************)
(* Round trip through the sidecar.                                         *)
(***************************************************************************)
SaveAndLoadStep == call'.op = "save_load"

\* entry i of the saved sequence is in the loaded one with its action and,
\* when it has an action, its timestamp
Restored(i) ==
    \E j \in 1..Len(photo_pairs') :
        /\ heap'[photo_pairs'[j]].base_name = heap[photo_pairs[i]].base_name
        /\ heap'[photo_pairs'[j]].action = heap[photo_pairs[i]].action
        /\ has_action(heap[photo_pairs[i]])
              => heap'[photo_pairs'[j]].action_timestamp
                    = heap[photo_pairs[i]].action_timestamp

HasFile(i) == has_jpeg(disk, heap[photo_pairs[i]]) \/ has_raw(disk, heap[photo_pairs[i]])

\* the save writes the sidecar and the load into the fresh session succeeds
SavedAndLoaded ==
    /\ SaveAndLoadStep
    /\ current_folder[1] \in DOMAIN disk \ ReadOnly
    /\ call'.ret

\* C12 as stated: saving and then loading the same directory into a fresh
\* session gives every entry of the sequence the action and timestamp it had
\* at the save (none where it had none)
C12_RoundTrip ==
    [][SavedAndLoaded => \A i \in 1..Len(photo_pairs) : Restored(i)]_vars

\* C12, amended: every entry that still has a file is restored with its
\* action and timestamp, and the loaded sequence has no entry the saved one
\* did not have; an entry whose files are all deleted is not loaded again
C12_RoundTripOfEntriesWithFiles ==
    [][SavedAndLoaded
          => /\ \A i \in 1..Len(photo_pairs) : HasFile(i) <=> Restored(i)
             /\ \A j \in 1..Len(photo_pairs') :
                   \E i \in 1..Len(photo_pairs) :
                       heap[photo_pairs[i]].base_name = heap'[photo_pairs'[j]].base_name]_vars

C12_Witness ==
    /\ call.op = "save_load" /\ call.ret
    /\ \E i, j \in 1..Len(photo_pairs) :
          /\ heap[photo_pairs[i]].action = "keep_all"
          /\ heap[photo_pairs[i]].action_timestamp = <<1>>
          /\ heap[photo_pairs[j]].action = "none"

(***************************************************************************)
(* The sidecar after a mutation.                                           *)
(***************************************************************************)
\* set_action ran in the step: a keep, a skip or a committed deletion
MutationStep == clock' # clock

WriteSucceeds == current_folder # None /\ current_folder[1] \in DOMAIN disk \ ReadOnly

Reviewed == {i \in 1..Len(photo_pairs) : heap[photo_pairs[i]].action # "none"}

SidecarMatches ==
    LET file == sidecar[current_folder[1]]
    IN  /\ file.kind = "object" /\ file.actions.kind = "dict"
        /\ DOMAIN file.actions.map = {heap[photo_pairs[i]].base_name : i \in Reviewed}
        /\ \A i \in Reviewed :
              file.actions.map[heap[photo_pairs[i]].base_name].action
                  = heap[photo_pairs[i]].action

\* C13: right after a committed mutation whose write succeeds, the keys of the
\* sidecar's actions mapping are exactly the base names of the entries of the
\* sequence whose action is not none, each mapped to the entry's action.
C13_SidecarKeys == [][(MutationStep /\ WriteSucceeds') => SidecarMatches']_vars

C13_Witness ==
    /\ events = <<"commit">> /\ ~crashed
    /\ current_folder = <<"F1">> /\ Len(photo_pairs) = 2
    /\ DOMAIN sidecar["F1"].actions.map = {NameA}
    /\ sidecar["F1"].actions.map[NameA].action = "delete_raw"

(***************************************************************************)
(* Sidecar files that are missing, malformed or hold unknown actions.      *)
(***************************************************************************)
\* load_folder is called on a directory that exists and can be listed
LoadStep ==
    /\ call'.op = "load_folder"
    /\ current_folder'[1] \in DOMAIN disk \ Unreadable

\* the sidecar of the directory being loaded
Loaded == sidecar[current_folder'[1]]

AllUnreviewed == \A i \in 1..Len(photo_pairs) : heap[photo_pairs[i]].action = "none"

\* no file, text that is not a JSON object, an "actions" value that is not
\* an object, or a record that is not an object
MissingOrMalformed(file) ==
    \/ file.kind \in {"missing", "invalid"}
    \/ file.actions.kind \in {"null", "list"}
    \/ /\ file.actions.kind = "dict"
       /\ \E n \in DOMAIN file.actions.map : file.actions.map[n].shape # "object"

\* C14: loading a directory whose sidecar is missing or malformed succeeds
\* and leaves every scanned entry with action none.
C14_MalformedSidecarIgnored ==
    [][(LoadStep /\ MissingOrMalformed(Loaded)) => (call'.ret /\ AllUnreviewed')]_vars

\* every record is an object with an "action" key and a timestamp that is
\* null or text
RecordsWellShaped(file) ==
    /\ file.kind = "object" /\ file.actions.kind = "dict"
    /\ \A n \in DOMAIN file.actions.map :
          /\ file.actions.map[n].shape = "object" /\ file.actions.map[n].has_key
          /\ ~IsNumber(file.actions.map[n].timestamp)

HasUnknownAction(file) ==
    \E n \in DOMAIN file.actions.map : file.actions.map[n].action \notin PhotoAction

\* C15: a record whose action string is not an ActionKind value leaves its
\* entry with action none; every entry with a valid record receives the
\* recorded action, and the load succeeds.
C15_UnknownActionSkipped ==
    [][(LoadStep /\ RecordsWellShaped(Loaded) /\ HasUnknownAction(Loaded))
          => /\ call'.ret
             /\ \A i \in 1..Len(photo_pairs') :
                   LET p == heap'[photo_pairs'[i]]
                       map == Loaded.actions.map
                   IN  p.action = IF p.base_name \in DOMAIN map
                                     /\ map[p.base_name].action \in PhotoAction
                                  THEN map[p.base_name].action
                                  ELSE "none"]_vars

C15_Witness ==
    /\ LoadSucceeded /\ current_folder = <<"F1">>
    /\ RecordsWellShaped(sidecar["F1"])
    /\ sidecar["F1"].actions.map[NameA].action = "bogus"
    /\ heap[photo_pairs[1]].action = "none"
    /\ heap[photo_pairs[2]].action = "delete_raw"

(***************************************************************************)
(* The cursor after staging.                                               *)
(***************************************************************************)
Staged == pending_action'[1]

CurrentIsTarget ==
    /\ current_index' < Len(photo_pairs')
    /\ photo_pairs'[current_index' + 1] = Staged.photo

\* C16 as stated: right after a destructive action is staged the cursor is
\* one position past the staged entry, and the current entry is not the entry
\* whose deletion is pending
C16_StageAdvancesCursor ==
    [][StageStep => (current_index' = Staged.previous_index + 1 /\ ~CurrentIsTarget)]_vars

\* C16, amended: that holds when the staged entry is not the last of the
\* sequence; when it is the last, the cursor stays on it and the current
\* entry is the entry whose deletion is pending
C16_StageAdvancesCursorUnlessLast ==
    [][StageStep
          => IF Staged.previous_index < Len(photo_pairs') - 1
             THEN current_index' = Staged.previous_index + 1 /\ ~CurrentIsTarget
             ELSE current_index' = Staged.previous_index /\ CurrentIsTarget]_vars

C16_Witness ==
    /\ events = <<"stage">> /\ pending_action # None
    /\ current_index = pending_action[1].previous_index + 1
    /\ photo_pairs[current_index] = pending_action[1].photo

(***************************************************************************)
(* Keep and skip requests.                                                 *)
(***************************************************************************)
Current == photo_pairs[current_index + 1]

\* C17: after a keep-all request on the current entry, also while a
\* destructive action is pending, the entry is still in the sequence with
\* action keep_all and every file it had before the request still exists.
C17_KeepLeavesEntryAndFiles ==
    [][(KeepAll /\ CursorValid)
          => /\ Current \in Range(photo_pairs')
             /\ heap'[Current].action = "keep_all"
             /\ \A path \in Paths(heap[Current]) :
                   FileExists(disk, path) => FileExists(disk', path)]_vars

\* C18: a keep-all or skip request creates no pending action and starts no
\* countdown; it sets the current entry's action and writes the sidecar in
\* the same step, and no action is pending when the request ends.
C18_KeepAndSkipAreImmediate ==
    [][((KeepAll \/ Skip) /\ CursorValid)
          => /\ pending_action' = None /\ ~timer_active'
             /\ Current \in DOMAIN heap'
             /\ heap'[Current].action \in {"keep_all", "skipped"}
             /\ heap'[Current].action_timestamp = <<clock' - 1>>
             /\ WriteSucceeds' => SidecarMatches']_vars

(***************************************************************************)
(* Cancel requests.                                                        *)
(***************************************************************************)
CancelRequest == Undo \/ UndoButton

EntriesUnchanged ==
    /\ photo_pairs' = photo_pairs
    /\ \A o \in Range(photo_pairs) : heap'[o] = heap[o]
    /\ disk' = disk /\ sidecar' = sidecar

\* C19: a cancel request takes effect whenever the staged action has not been
\* committed (the action is discarded uninvoked and the cursor restored);
\* with nothing pending, also after a commit, it changes nothing.
C19_CancelUntilCommitted ==
    [][CancelRequest
          => IF pending_action # None
             THEN /\ pending_action' = None /\ ~timer_active'
                  /\ staged.invoked = 0 /\ staged'.invoked = 0
                  /\ current_index' = pending_action[1].previous_index
                  /\ EntriesUnchanged
             ELSE EntriesUnchanged /\ current_index' = current_index]_vars

C19_Witness ==
    /\ events = <<"cancel">> /\ pending_action = None
    /\ \E i \in 1..Len(photo_pairs) : heap[photo_pairs[i]].action = "delete_raw"

(***************************************************************************)
(* Ticks and handlers in progress.                                         *)
(***************************************************************************)
TickStep == timer_active /\ remaining_time' = remaining_time - 1

\* C20: a countdown tick is never handled while a mutation or a load is in
\* progress; load_folder is in progress while the dialog of the error it
\* emitted is open.
C20_NoTickInsideHandler == [][TickStep => ~dialog_open]_vars

(***************************************************************************)
(* delete_raw_only called directly on an entry of the list.                *)
(***************************************************************************)
DeleteRawCall(o) == call'.op = "delete_raw_only" /\ call'.photo = o

\* C21: delete_raw_only on an entry without a RAW file returns False and
\* leaves the entry (action, timestamp, paths), the list, the cursor, the
\* files and the sidecar as they were.
C21_NoRawNoChange ==
    [][\A o \in Range(photo_pairs) :
          DeleteRawCall(o) /\ ~has_raw(disk, heap[o])
          => /\ ~call'.ret
             /\ heap'[o] = heap[o]
             /\ photo_pairs' = photo_pairs
             /\ current_index' = current_index
             /\ disk' = disk
             /\ sidecar' = sidecar]_vars

C21_Witness ==
    /\ call.op = "delete_raw_only"
    /\ ~call.ret
    /\ call.photo \in DOMAIN heap
    /\ ~has_raw(disk, heap[call.photo])

\* what delete_raw_only is said to do to entry o: marked, RAW path cleared,
\* same place in a list of the same length, cursor and JPEG side untouched
RawDeleted(o) ==
    /\ heap'[o].action = "delete_raw"
    /\ heap'[o].raw_path = None
    /\ Len(photo_pairs') = Len(photo_pairs)
    /\ \A i \in 1..Len(photo_pairs) : photo_pairs[i] = o => photo_pairs'[i] = o
    /\ current_index' = current_index
    /\ heap'[o].jpeg_path = heap[o].jpeg_path
    /\ has_jpeg(disk', heap'[o]) = has_jpeg(disk, heap[o])

Moved(can, by) ==
    /\ call'.ret = can
    /\ current_index' = IF can THEN current_index + by ELSE current_index
    /\ photo_pairs' = photo_pairs
    /\ heap' = heap

\* C23: move_to_next returns True and adds exactly 1 to the cursor if and
\* only if cursor < len - 1, move_to_previous returns True and subtracts
\* exactly 1 if and only if cursor > 0; otherwise each returns False and
\* leaves the cursor alone, also on an empty list; neither changes the list
\* or an entry.
C23_MoveByOne ==
    [][/\ call'.op = "move_to_next"
          => Moved(current_index < Len(photo_pairs) - 1, 1)
       /\ call'.op = "move_to_previous"
          => Moved(current_index > 0, -1)]_vars

\* the cursor has just advanced onto the last entry
C23_Witness ==
    /\ call.op = "move_to_next"
    /\ call.ret
    /\ current_index = call.cursor + 1
    /\ current_index = Len(photo_pairs) - 1

(***************************************************************************)
(* The list between two loads.                                             *)
(***************************************************************************)
\* C24: in a step that is not a load the list changes only when a delete-all
\* is committed, and then by losing exactly the target of that action:
\* keep, skip, delete-RAW, navigation, staging and cancel leave membership
\* and order alone, and since no step adds an entry a removed one does not
\* come back before the next load.
C24_OnlyDeleteAllRemoves ==
    [][loads' = loads
          => \/ photo_pairs' = photo_pairs
             \/ /\ DeleteAllCommitStep
                /\ Target \in Range(photo_pairs)
                /\ photo_pairs' = SelectSeq(photo_pairs, LAMBDA o : o # Target)]_vars

\* a later request confirmed the delete-all of b, the second of two entries,
\* and a is what is left
C24_Witness ==
    /\ "commit" \in Range(events)
    /\ remaining_time >= 0
    /\ loads = 1
    /\ Len(photo_pairs) = 1
    /\ heap[photo_pairs[1]].base_name = NameA
    /\ heap[photo_pairs[1]].action = "none"

(***************************************************************************)
(* Order and identity of the entries.                                      *)
(***************************************************************************)
BaseName(i) == heap[photo_pairs[i]].base_name

\* C25: the list is always in non-decreasing order of lower-cased base name
\* and no two of its entries have the same base name.
C25_SortedAndDistinct ==
    /\ \A i \in 1..Len(photo_pairs) - 1 :
          ~StrLess(lower(BaseName(i + 1)), lower(BaseName(i)))
    /\ \A i, j \in 1..Len(photo_pairs) : i # j => BaseName(i) # BaseName(j)

\* "A" and "a" are left, side by side, after the entry "B" was deleted
C25_Witness ==
    /\ call.op = "delete_both_files" /\ call.ret
    /\ Len(photo_pairs) = 2
    /\ BaseName(1) # BaseName(2)
    /\ lower(BaseName(1)) = lower(BaseName(2))
    /\ \A i \in 1..Len(disk["F1"]) : disk["F1"][i][1] # NameUpperB

(***************************************************************************)
(* The empty list.                                                         *)
(***************************************************************************)
\* C26: whenever the list is empty, after loading a directory without
\* supported files or after delete_both_files removed the last entry,
\* get_photo_count() is (0, 0), get_current_photo() is None and the cursor
\* is 0.
C26_EmptyListState ==
    photo_pairs = <<>>
    => /\ get_photo_count(World) = <<0, 0>>
       /\ get_current_photo(World) = None
       /\ current_index = 0

(***************************************************************************)
(* The current entry after delete_both_files.                              *)
(***************************************************************************)
AfterDeleteBoth == call.op = "delete_both_files" /\ get_current_photo(World) # None

CurrentHasFile ==
    has_jpeg(disk, get_current_photo(World)[1]) \/ has_raw(disk, get_current_photo(World)[1])

\* C27: when delete_both_files has completed, the current entry, if there is
\* one, has its JPEG file or its RAW file.
C27_CurrentHasFile == AfterDeleteBoth => CurrentHasFile

\* C27 as the code has it: the current entry is not the one that was deleted,
\* and it has a file unless both of its paths are cleared, which is how
\* delete_raw_only leaves an entry that had only a RAW file.
C27_CurrentHasFileUnlessRawOnlyDeleted ==
    AfterDeleteBoth
    => /\ call.ret => current_photo_ref(World)[1] # call.photo
       /\ \/ CurrentHasFile
          \/ /\ get_current_photo(World)[1].jpeg_path = None
             /\ get_current_photo(World)[1].raw_path = None
             /\ get_current_photo(World)[1].base_name = NameC

\* the entry after the deleted one has become current and has its files
C27_Witness ==
    /\ AfterDeleteBoth /\ call.ret
    /\ call.at = <<current_index>>
    /\ CurrentHasFile

(***************************************************************************)
(* get_next_unprocessed_index.                                             *)
(***************************************************************************)
\* the indexes in the order start, start+1, ..., len-1, 0, 1, ..., start-1
Circular(start, n) == [k \in 1..n |-> (start + k - 1) % n]

FirstUnreviewed(start) ==
    LET n == Len(photo_pairs)
        order == Circular(start, n)
        hits == {k \in 1..n : ~has_action(heap[photo_pairs[order[k] + 1]])}
    IN  IF hits = {} THEN None
        ELSE <<order[CHOOSE k \in hits : \A j \in hits : k <= j]>>

\* C28: for 0 <= start <= len, get_next_unprocessed_index(start) returns the
\* first index in the order start, ..., len-1, 0, ..., start-1 whose entry
\* has action none, returns None if and only if no entry has action none,
\* and leaves the cursor where it was.
C28_NextUnprocessedIsCircular ==
    [][(call'.op = "get_next_unprocessed_index" /\ call'.arg # None)
          => /\ ~call'.raised
             /\ call'.result = FirstUnreviewed(call'.arg[1])
             /\ call'.result = None
                <=> \A i \in 1..Len(photo_pairs) : has_action(heap[photo_pairs[i]])
             /\ current_index' = current_index
             /\ photo_pairs' = photo_pairs /\ heap' = heap]_vars

\* the search from index 2 of three entries wrapped around to index 0
C28_Witness ==
    /\ call.op = "get_next_unprocessed_index"
    /\ call.arg = <<2>>
    /\ call.result = <<0>>
    /\ Len(photo_pairs) = 3

(***************************************************************************)
(* get_session_progress.                                                   *)
(***************************************************************************)
ProgressCall == call.op = "get_session_progress"

ProcessedCount == Cardinality({i \in 1..Len(photo_pairs) : has_action(heap[photo_pairs[i]])})

\* C29: get_session_progress returns (p, n, pct): n the length of the list,
\* p the number of its entries with an action, pct the integer part of
\* 100 * p / n for n > 0 (so 100 exactly when p = n > 0), and (0, 0, 0) for
\* the empty list.
C29_ProgressIsIntegerPercentage ==
    ProgressCall
    => /\ call.result[1] = ProcessedCount
       /\ call.result[2] = Len(photo_pairs)
       /\ call.result[3] = IF photo_pairs = <<>> THEN 0
                           ELSE (100 * ProcessedCount) \div Len(photo_pairs)

(***************************************************************************)
(* What a scan makes of a directory.                                       *)
(***************************************************************************)
Scanned == call.op = "load_folder" /\ call.ret

\* the files of the loaded directory with the stem `name` and an extension in exts
FilesOf(name, exts) ==
    {<<current_folder[1], file[1], file[2]>> : file \in
        {f \in Range(disk[current_folder[1]]) : f[1] = name /\ f[2] \in exts}}

Stems == {file[1] : file \in Range(disk[current_folder[1]])}

\* C30: a scan yields exactly one entry for each base name that has a file
\* with a JPEG or RAW extension and none for any other base name; the
\* entry's JPEG path is set if and only if the directory has a JPEG file of
\* that base name, and then is one of them, and likewise its RAW path.
C30_ScanPairsFiles ==
    Scanned
    => /\ {BaseName(i) : i \in 1..Len(photo_pairs)}
          = {name \in Stems : FilesOf(name, JPEG_EXTENSIONS \cup RAW_EXTENSIONS) # {}}
       /\ \A i, j \in 1..Len(photo_pairs) : BaseName(i) = BaseName(j) => i = j
       /\ \A i \in 1..Len(photo_pairs) :
             LET photo == heap[photo_pairs[i]]
             IN  /\ photo.jpeg_path # None <=> FilesOf(photo.base_name, JPEG_EXTENSIONS) # {}
                 /\ photo.jpeg_path # None
                    => photo.jpeg_path \in FilesOf(photo.base_name, JPEG_EXTENSIONS)
                 /\ photo.raw_path # None <=> FilesOf(photo.base_name, RAW_EXTENSIONS) # {}
                 /\ photo.raw_path # None
                    => photo.raw_path \in FilesOf(photo.base_name, RAW_EXTENSIONS)

\* a.jpg, a.cr2 and c.txt were scanned: one entry, a pair
C30_Witness ==
    /\ Scanned
    /\ Len(photo_pairs) = 1
    /\ heap[photo_pairs[1]].jpeg_path # None
    /\ heap[photo_pairs[1]].raw_path # None
    /\ NameC \in Stems

(***************************************************************************)
(* Letter case in base names and extensions.                               *)
(***************************************************************************)
\* C31: no two entries of a scanned list have base names that are equal
\* ignoring letter case: files whose base names differ only in case are
\* grouped into one entry.
C31_OneEntryPerNameIgnoringCase ==
    Scanned
    => \A i, j \in 1..Len(photo_pairs) :
          lower(BaseName(i)) = lower(BaseName(j)) => i = j

\* str.lower() of the extensions that occur in the directories
LowerExtension(extension) ==
    CASE extension \in {".jpg", ".JPG", ".Jpg"} -> ".jpg"
      [] extension \in {".jpeg", ".JPEG"} -> ".jpeg"
      [] extension \in {".cr2", ".CR2", ".Cr2"} -> ".cr2"
      [] extension \in {".cr3", ".CR3"} -> ".cr3"
      [] OTHER -> extension

\* the files of the loaded directory whose extension is in exts ignoring case
FilesIgnoringCase(exts) ==
    {f \in Range(disk[current_folder[1]]) : LowerExtension(f[2]) \in exts}

\* C32: every file whose extension equals a JPEG (or RAW) extension ignoring
\* letter case is classified: the entry of its base name exists and has a
\* JPEG (or RAW) path; only files that match neither set are ignored.
C32_ExtensionsIgnoreCase ==
    Scanned
    => /\ \A f \in FilesIgnoringCase(JPEG_EXTENSIONS) :
             \E i \in 1..Len(photo_pairs) :
                 BaseName(i) = f[1] /\ heap[photo_pairs[i]].jpeg_path # None
       /\ \A f \in FilesIgnoringCase(RAW_EXTENSIONS) :
             \E i \in 1..Len(photo_pairs) :
                 BaseName(i) = f[1] /\ heap[photo_pairs[i]].raw_path # None

(***************************************************************************)
(* get_photos_by_action and get_action_summary.                            *)
(***************************************************************************)
\* the places of the list whose entry has action k
Places(k) == {i \in 1..Len(photo_pairs) : heap[photo_pairs[i]].action = k}

\* seq holds exactly the entries at the places of k, lowest place first
EntriesInOrder(seq, k) ==
    /\ Len(seq) = Cardinality(Places(k))
    /\ \A j \in 1..Len(seq) :
          \E i \in Places(k) :
              /\ seq[j] = photo_pairs[i]
              /\ Cardinality({h \in Places(k) : h < i}) = j - 1

RECURSIVE Sum(_, _)
Sum(f, S) ==
    IF S = {} THEN 0
    ELSE LET x == CHOOSE y \in S : TRUE IN f[x] + Sum(f, S \ {x})

\* C33: get_photos_by_action(k) returns exactly the entries of the list whose
\* action is k, in list order; the results for the five actions are pairwise
\* disjoint and together hold every entry; the counts of get_action_summary
\* are the lengths of those results and add up to the length of the list.
\* Neither call changes the list, the cursor or an entry.
C33_EntriesByAction ==
    [][/\ call'.op = "get_photos_by_action"
          => /\ EntriesInOrder(call'.result, call'.arg[1])
             /\ \A k \in PhotoAction \ {call'.arg[1]} :
                   Range(call'.result)
                      \cap Range(get_photos_by_action(World, k).ret) = {}
             /\ UNION {Range(get_photos_by_action(World, k).ret) : k \in PhotoAction}
                   = Range(photo_pairs)
             /\ UNCHANGED <<photo_pairs, current_index, heap>>
       /\ call'.op = "get_unprocessed_photos"
          => EntriesInOrder(call'.result, "none")
       /\ call'.op = "get_action_summary"
          => /\ DOMAIN call'.result = PhotoAction
             /\ \A k \in PhotoAction : call'.result[k] = Cardinality(Places(k))
             /\ Sum(call'.result, PhotoAction) = Len(photo_pairs)
             /\ UNCHANGED <<photo_pairs, current_index, heap>>]_vars

\* a and c, both kept, come back in list order while b is marked delete_all
C33_Witness ==
    /\ call.op = "get_photos_by_action"
    /\ call.arg = <<"keep_all">>
    /\ Len(photo_pairs) = 3
    /\ call.result = <<photo_pairs[1], photo_pairs[3]>>
    /\ heap[photo_pairs[2]].action = "delete_all"

(***************************************************************************)
(* The countdown runs out.                                                 *)
(***************************************************************************)
\* C34: when an action is pending and from some point on no user request
\* arrives (only timer ticks are handled), the countdown runs out, the commit
\* callback runs, and from then on no action is pending and the window takes
\* navigation requests: under fair ticks no action stays pending forever.
C34_PendingEventuallySettled ==
    <>[][Tick]_vars => <>[](pending_action = None /\ ~crashed)

(***************************************************************************)
(* The pending action and the list.                                        *)
(***************************************************************************)
\* C35: whenever an action is pending, its target is an entry of the list
\* (`photo in photo_pairs`) and its restore index is an index of the list,
\* also after another folder was loaded while the action was pending.
C35_PendingTargetInList ==
    pending_action # None
    => /\ ListIndex(World, pending_action[1].photo) # None
       /\ pending_action[1].previous_index >= 0
       /\ pending_action[1].previous_index < Len(photo_pairs)

\* C36: between two handlers the countdown timer is running if and only if
\* an action is pending.
C36_TimerRunsIffPending == timer_active <=> pending_action # None

(***************************************************************************)
(* The cursor while an action is pending.                                  *)
(***************************************************************************)
\* C37: while an action is pending a next or previous request leaves the
\* cursor where it is, and the cursor changes only in a step that cancels the
\* pending action, commits it, or handles a keep, skip or delete request.
C37_CursorFixedWhilePending ==
    [][pending_action # None
          => /\ (NextPhoto \/ PreviousPhoto) => current_index' = current_index
             /\ current_index' # current_index
                => \/ CancelStep \/ CommitStep
                   \/ KeepAll \/ Skip \/ DeleteRaw \/ DeleteAll]_vars

(***************************************************************************)
(* The commit of a delete-all whose target lies before the cursor.         *)
(***************************************************************************)
TargetBeforeCursor ==
    /\ current_index < Len(photo_pairs)
    /\ \E i \in 1..current_index : photo_pairs[i] = Target

SameEntryUnderCursor ==
    /\ current_index' < Len(photo_pairs')
    /\ photo_pairs'[current_index' + 1] = photo_pairs[current_index + 1]

C39_TargetIsEntryAtRestoreIndex ==
    pending_action # None
    => /\ pending_action[1].photo = pending_action[1].action_func.photo
       /\ pending_action[1].previous_index < Len(photo_pairs)
       /\ photo_pairs[pending_action[1].previous_index + 1] = pending_action[1].photo

====
